---- MODULE Spec2Model ----
(***************************************************************************)
(* Orchestration of the qa-agents pipeline: the stage graph of             *)
(* src/graph/workflow.py run by main.py under a recursion budget, the       *)
(* SnapshotCollector tool loop, the single-shot stages, TestRunner and the  *)
(* bounded loop of advanced_test_healer_node.                               *)
(*                                                                          *)
(* The language model, the browser tools and the Playwright processes are   *)
(* external: every value they return is a nondeterministic choice.          *)
(***************************************************************************)
EXTENDS Integers, Sequences, FiniteSets, TLC

(***************************************************************************)
(* Bounds of the model.                                                     *)
(***************************************************************************)
\* Most tool calls the model requests over one Healer invocation, in the
\* specification of the whole run.
MaxRunToolCalls == 1

\* Most tool calls the model requests over one Healer invocation, in the
\* specification of the Healer alone.
MaxHealerToolCalls == 3

\* Most scripts found in tests/ by TestRunner.
MaxScripts == 1

\* Test cases in the list the stage specification starts from.
MaxStageCases == 3

\* Browser tool calls in flight at once in the browser specification.
MaxBrowserCalls == 3

\* Cases the generator's response has tests for in the stage specification.
MaxTargets == 2

\* update_test_script calls made in the script-update specification.
MaxUpdates == 3

\* Seconds that pass while the calls of the browser specification run.
MaxClock == 1

(***************************************************************************)
(* Program constants.                                                       *)
(***************************************************************************)
\* config = {"recursion_limit": 50} of main().
recursion_limit == 50

\* max_iterations of advanced_test_healer_node.
max_iterations == 5

NULL == "null"

Nodes ==
    { "snapshot_agent", "tools", "test_planner_agent", "test_case_designer_agent",
      "test_script_generator_agent", "test_runner_agent",
      "advanced_test_healer_agent" }

END == "__end__"

\* The tools bound to the Healer's model.
healing_tools ==
    { "playwright_run_all_tests", "playwright_analyze_failure", "update_test_script",
      "browser_snapshot", "browser_navigate", "browser_wait" }

\* A tool name the model may ask for that no capability carries.
UnknownTool == "unknown_tool"

\* The names the model's tool calls are drawn from: in the Healer loop every
\* tool but playwright_run_all_tests is a call that returns a value or raises,
\* and update_test_script stands for them.
CallNames == { "playwright_run_all_tests", "update_test_script", UnknownTool }

\* No tool result.
NoResult == [ dict |-> FALSE, value |-> "none" ]

\* No summary requested.
NoRequest == [ iterations |-> -1, all_tests_passing |-> FALSE ]

\* No tool call executed.
NoCall ==
    [ call_id |-> 0, name |-> "none", outcome |-> "none", result |-> NoResult,
      proc |-> [ returncode |-> -1, stdout |-> [ kind |-> "none", value |-> [ text |-> << >> ] ],
                 stderr |-> << >> ] ]

LLMStages ==
    { "snapshot", "planner", "designer", "generator", "runner",
      "healer_loop", "healer_summary" }

VARIABLES
    status,              \* "running" | "done" | "recursion_error" | "model_error" | "stage_error"
    node,                \* the node the engine runs next, or END
    steps,               \* supersteps started so far
    executed,            \* executed[n]: times node n has started
    state,               \* AgentState: a record of the keys written so far
    next_id,             \* next fresh message / tool-call id
    test_plan,           \* output/test_plan.md: "absent" or "written"
    test_cases,          \* output/test_cases.json: "absent" | "valid" | "invalid"
    cases,               \* the list output/test_cases.json parses to, when valid
    test_dir,            \* tests/: file name -> what the file holds
    scripts,             \* number of *.spec.ts files in tests/
    results,             \* how each script's test process ended in TestRunner
    failure_reports,     \* writes of output/failure_report/failure_analysis.md
    llm_calls,           \* llm_calls[s]: ModelProvider invocations made by stage s
    llm_failed_in,       \* the stage whose ModelProvider call failed, or NULL
    hpc,                 \* Healer position: "idle" | "loop" | "tools" | "returned"
    iteration,           \* Healer local `iteration`
    all_tests_passing,   \* Healer local `all_tests_passing`
    hmsgs,               \* Healer local `messages`
    calls,               \* tool calls of the Healer's current response
    ci,                  \* index of the next call of `calls` to execute
    htools,              \* tool calls requested so far in this Healer invocation
    last_call,           \* the Healer tool call just executed, with how it ended
                         \* and the `tool_result` it returned
    summaries,           \* healing summary artifacts written
    summary_request,     \* what the summary prompt carries (NoRequest before it)
    page,                \* _page: "none" | "open"
    page_lock,           \* _page_lock: the task holding it, or 0
    lock_waiters,        \* the tasks suspended in _page_lock.acquire(), oldest first
    pages,               \* pages created so far; _page is the latest
    clock,               \* datetime.now(), in seconds since the run began
    snapshot_dir,        \* output/snapshots/: file key -> snapshot record
    saved,               \* write_text calls made by browser_snapshot
    task_op,             \* task_op[t]: the browser tool that call t runs
    task_name,           \* task_name[t]: the page_name argument of a snapshot call
    task_page,           \* task_page[t]: the page call t got from _get_page(), or 0
    task_pc              \* task_pc[t]: "idle" | "start" | "waiting" | "get_page" |
                         \* "launch" | "page_op" | "done"

vars ==
    << status, node, steps, executed, state, next_id, test_plan, test_cases, cases,
       test_dir,
       scripts, results,
       failure_reports, llm_calls, llm_failed_in,
       hpc, iteration, all_tests_passing, hmsgs, calls, ci, htools, last_call,
       summaries, summary_request,
       page, page_lock, lock_waiters, pages, clock, snapshot_dir, saved,
       task_op, task_name, task_page, task_pc >>

browserVars ==
    << page, page_lock, lock_waiters, pages, clock, snapshot_dir, saved,
       task_op, task_name, task_page, task_pc >>
taskVars == << task_op, task_name, task_page, task_pc >>
engineVars == << status, node, steps, executed >>
artifactVars ==
    << test_plan, test_cases, cases, test_dir, scripts, results, failure_reports >>
llmVars == << llm_calls, llm_failed_in >>
healerVars ==
    << hpc, iteration, all_tests_passing, hmsgs, calls, ci, htools, last_call,
       summaries, summary_request >>

(***************************************************************************)
(* Messages.                                                                *)
(***************************************************************************)
\* type: "human" | "system" | "ai" | "tool"; ncalls: tool calls an ai message
\* requests; call_id: the call a tool message answers; content: "text",
\* "result" or "error".
Msg(type, id, ncalls, call_id, content) ==
    [ type |-> type, id |-> id, ncalls |-> ncalls, call_id |-> call_id,
      content |-> content ]

AIMessage(id, ncalls) == Msg("ai", id, ncalls, 0, "text")
HumanMessage(id) == Msg("human", id, 0, 0, "text")
SystemMessage(id) == Msg("system", id, 0, 0, "text")
ToolMessage(id, call_id, content) == Msg("tool", id, 0, call_id, content)

Ids(seq) == { seq[i].id : i \in 1..Len(seq) }

\* Mutant of add_messages: plain list concatenation.
add_messages_Concat(left, right) == left \o right

\* Mutant of add_messages: the returned list replaces the history.
add_messages_Replace(left, right) == right

\* langgraph's reducer of AgentState.messages: a message of `right` whose id is
\* already in `left` replaces that message in place, the others are appended in
\* their order.  (The ids within `right` are distinct in every use.)
add_messages(left, right) ==
    LET update(m) ==
            IF m.id \in Ids(right)
            THEN right[CHOOSE j \in 1..Len(right) : right[j].id = m.id]
            ELSE m
        new(m) == m.id \notin Ids(left)
    IN [ i \in 1..Len(left) |-> update(left[i]) ] \o SelectSeq(right, new)

(***************************************************************************)
(* AgentState.                                                              *)
(***************************************************************************)
\* The keys AgentState declares (src/graph/state.py).
AgentStateKeys ==
    { "messages", "user_story", "snapshots", "test_run_attempt",
      "max_test_fix_attempts", "has_test_failures", "failures",
      "failure_report_path", "advanced_healing_report_path" }

\* dict.get(key, default).
Get(st, key, default) == IF key \in DOMAIN st THEN st[key] ELSE default

\* {**st, **upd}.
Spread(st, upd) ==
    [ k \in DOMAIN st \cup DOMAIN upd |-> IF k \in DOMAIN upd THEN upd[k] ELSE st[k] ]

\* The engine's merge of a node's return value into AgentState: a shallow
\* override key by key, `messages` through its reducer; a key the state does not
\* declare is not written.
Merge(st, upd) ==
    [ k \in DOMAIN st \cup (DOMAIN upd \cap AgentStateKeys) |->
        IF k \notin DOMAIN upd THEN st[k]
        ELSE IF k = "messages" THEN add_messages(st.messages, upd.messages)
        ELSE upd[k] ]

(***************************************************************************)
(* GraphEngine: routing functions and the recursion budget.                 *)
(***************************************************************************)
\* Mutant of BudgetLeft: the budget check is off by one.
BudgetLeft_OffByOne(n) == n <= recursion_limit

\* The engine starts a superstep only while fewer than recursion_limit have
\* been started; a pending node with no budget left raises GraphRecursionError.
BudgetLeft(n) == n < recursion_limit

\* Mutant of should_continue: any model response counts as a tool request.
should_continue_AnyResponse(st) ==
    IF st.messages[Len(st.messages)].type = "ai" THEN "tool_call" ELSE "test_plan"

\* workflow.should_continue, on AgentState.messages.
should_continue(st) ==
    LET last_message == st.messages[Len(st.messages)]
    IN IF last_message.type = "ai" /\ last_message.ncalls > 0
       THEN "tool_call"
       ELSE "test_plan"

\* The branch map of the conditional edge leaving snapshot_agent.
SnapshotEdge(branch) ==
    IF branch = "tool_call" THEN "tools" ELSE "test_planner_agent"

\* Mutant of route_after_test_runner: the key's presence is tested, not its value.
route_after_test_runner_KeyPresent(st) ==
    IF "has_test_failures" \in DOMAIN st THEN "heal_advanced" ELSE "end"

\* workflow.route_after_test_runner.
route_after_test_runner(st) ==
    IF Get(st, "has_test_failures", FALSE) THEN "heal_advanced" ELSE "end"

\* Mutant of Edge: test_planner_agent leads to test_script_generator_agent.
Edge_SkipsDesigner(n) ==
    CASE n = "tools" -> "snapshot_agent"
      [] n = "test_planner_agent" -> "test_script_generator_agent"
      [] n = "test_case_designer_agent" -> "test_script_generator_agent"
      [] n = "test_script_generator_agent" -> "test_runner_agent"
      [] n = "advanced_test_healer_agent" -> END

\* Mutant of Edge: the Healer leads back to test_runner_agent.
Edge_HealerBackToRunner(n) ==
    CASE n = "tools" -> "snapshot_agent"
      [] n = "test_planner_agent" -> "test_case_designer_agent"
      [] n = "test_case_designer_agent" -> "test_script_generator_agent"
      [] n = "test_script_generator_agent" -> "test_runner_agent"
      [] n = "advanced_test_healer_agent" -> "test_runner_agent"

\* The unconditional edges of build_graph (add_edge).
Edge(n) ==
    CASE n = "tools" -> "snapshot_agent"
      [] n = "test_planner_agent" -> "test_case_designer_agent"
      [] n = "test_case_designer_agent" -> "test_script_generator_agent"
      [] n = "test_script_generator_agent" -> "test_runner_agent"
      [] n = "advanced_test_healer_agent" -> END

\* Mutant of RunnerEdge: both branches lead to END.
RunnerEdge_AlwaysEnd(branch) == END

\* The branch map of the conditional edge leaving test_runner_agent.
RunnerEdge(branch) ==
    IF branch = "heal_advanced" THEN "advanced_test_healer_agent" ELSE END

\* Mutant of ModelFailure: TestRunner catches the failure of its model call.
ModelFailure_CaughtInRunner(stage) ==
    IF stage = "runner" THEN "running" ELSE "model_error"

\* The status a run takes when the ModelProvider call of `stage` raises: no
\* node wraps llm.invoke in a try block, so the exception leaves the node and
\* the engine, and main() ends with it.
ModelFailure(stage) == "model_error"

\* tests/ with no file in it.
EmptyDir == [ p \in {} |-> [ kind |-> "none", block |-> 0 ] ]

\* The browser tool calls a model response can carry at once.
Tasks == 1..MaxBrowserCalls

\* No browser session yet, no browser tool call in flight.
NoBrowserCall ==
    /\ page = "none"
    /\ page_lock = 0
    /\ lock_waiters = << >>
    /\ pages = 0
    /\ clock = 0
    /\ snapshot_dir = EmptyDir
    /\ saved = 0
    /\ task_op = [ t \in Tasks |-> "none" ]
    /\ task_name = [ t \in Tasks |-> << >> ]
    /\ task_page = [ t \in Tasks |-> 0 ]
    /\ task_pc = [ t \in Tasks |-> "idle" ]

Terminated == status /= "running"

\* A superstep of node n may start.
CanRun(n) ==
    /\ status = "running"
    /\ node = n
    /\ hpc = "idle"
    /\ BudgetLeft(steps)

StartStep(n) ==
    /\ steps' = steps + 1
    /\ executed' = [executed EXCEPT ![n] = @ + 1]

\* The ModelProvider call of `stage` raises.
LLMRaise(stage) ==
    /\ llm_calls' = [llm_calls EXCEPT ![stage] = @ + 1]
    /\ llm_failed_in' = stage
    /\ status' = ModelFailure(stage)

\* The ModelProvider call of `stage` returns.
LLMReturn(stage) ==
    /\ llm_calls' = [llm_calls EXCEPT ![stage] = @ + 1]
    /\ llm_failed_in' = llm_failed_in

\* The engine moves to the next node; reaching END completes the run.
GoTo(n) ==
    /\ node' = n
    /\ status' = IF n = END THEN "done" ELSE status

Init ==
    /\ status = "running"
    /\ node = "snapshot_agent"
    /\ steps = 0
    /\ executed = [n \in Nodes |-> 0]
    /\ state = [ messages |-> << HumanMessage(1) >> ]
    /\ next_id = 2
    /\ test_plan = "absent"
    /\ test_cases = "absent"
    /\ cases = << >>
    /\ test_dir = EmptyDir
    /\ results = << >>
    /\ scripts = 0
    /\ failure_reports = 0
    /\ llm_calls = [s \in LLMStages |-> 0]
    /\ llm_failed_in = NULL
    /\ hpc = "idle"
    /\ iteration = 0
    /\ all_tests_passing = FALSE
    /\ hmsgs = << >>
    /\ calls = << >>
    /\ ci = 0
    /\ htools = 0
    /\ last_call = NoCall
    /\ summaries = 0
    /\ summary_request = NoRequest
    /\ NoBrowserCall

(***************************************************************************)
(* SnapshotCollector and the tool-execution node.                           *)
(***************************************************************************)
\* snapshot_node: one model call on [system_message] + state["messages"];
\* returns {"messages": [response]}.  The response requests no tool call or
\* one browser_snapshot call (ncalls = n).
SnapshotAgent ==
    /\ CanRun("snapshot_agent")
    /\ StartStep("snapshot_agent")
    /\ \/ /\ LLMRaise("snapshot")
          /\ UNCHANGED << node, state, next_id >>
       \/ \E n \in { 0, 1 } :
            /\ LLMReturn("snapshot")
            /\ state' = Merge(state, [ messages |-> << AIMessage(next_id, n) >> ])
            /\ next_id' = next_id + 1 + n
            /\ GoTo(SnapshotEdge(should_continue(state')))
    /\ UNCHANGED artifactVars
    /\ UNCHANGED healerVars
    /\ UNCHANGED browserVars

\* page_name.replace(" ", "_").replace("/", "_"), on a name given as its
\* sequence of characters.
safe_page_name(page_name) ==
    [ i \in 1..Len(page_name) |->
        IF page_name[i] \in { " ", "/" } THEN "_" ELSE page_name[i] ]

\* f"{safe_page_name}_{timestamp}.json", the timestamp being datetime.now() to
\* the second.
SnapshotKey(page_name, now) == [ name |-> safe_page_name(page_name), timestamp |-> now ]

\* The snapshot record written by the n-th save.
Snapshot(page_name, n) == [ page_name |-> page_name, save |-> n ]

\* Path(...).write_text: the file is created or overwritten.
WriteText(dir, path, text) ==
    [ p \in DOMAIN dir \cup { path } |-> IF p = path THEN text ELSE dir[p] ]

\* The i-th tool call of ai message m has id m.id + i.
ToolResults(m, first_id) ==
    [ i \in 1..m.ncalls |-> ToolMessage(first_id + i - 1, m.id + i, "result") ]

\* ToolNode(tools): runs the calls of the last message and returns one
\* ToolMessage per call, in call order (a tool error is reported in the
\* ToolMessage as well); the edge tools -> snapshot_agent is unconditional.
\* Here the one call of the response is a browser_snapshot that succeeds, at
\* least a second after the one before: it opens the session if there is none
\* and saves its snapshot; when the node returns no call is in flight and the
\* lock is free.  (Concurrent calls, the other tools and failing calls are the
\* steps of BrowserSpec.)
ToolsNode ==
    /\ CanRun("tools")
    /\ StartStep("tools")
    /\ LET m == state.messages[Len(state.messages)]
       IN /\ state' = Merge(state, [ messages |-> ToolResults(m, next_id) ])
          /\ next_id' = next_id + m.ncalls
    /\ GoTo(Edge("tools"))
    /\ page' = "open"
    /\ pages' = IF page = "none" THEN pages + 1 ELSE pages
    /\ clock' = clock + 1
    /\ snapshot_dir' = WriteText(snapshot_dir, SnapshotKey(<< "h" >>, clock'),
                                 Snapshot(<< "h" >>, saved + 1))
    /\ saved' = saved + 1
    /\ UNCHANGED << page_lock, lock_waiters >>
    /\ UNCHANGED taskVars
    /\ UNCHANGED artifactVars
    /\ UNCHANGED llmVars
    /\ UNCHANGED healerVars

(***************************************************************************)
(* TestPlanner, TestCaseDesigner, TestScriptGenerator.                      *)
(***************************************************************************)
\* The response of a single-shot stage: a message without tool calls.
Response == AIMessage(next_id, 0)

\* One model call, then the node returns `ret` (built from the response) and
\* the engine follows the edge to `next`.
SingleShot(n, stage, ret, next) ==
    /\ CanRun(n)
    /\ StartStep(n)
    /\ \/ /\ LLMRaise(stage)
          /\ UNCHANGED << node, state, next_id >>
       \/ /\ LLMReturn(stage)
          /\ state' = Merge(state, ret)
          /\ next_id' = next_id + 1
          /\ GoTo(next)

\* test_planner_node returns {**state, "messages": [response]}.
PlannerReturn(response) == Spread(state, [ messages |-> << response >> ])

TestPlanner ==
    /\ SingleShot("test_planner_agent", "planner", PlannerReturn(Response),
                  Edge("test_planner_agent"))
    /\ test_plan' = IF status' = "running" THEN "written" ELSE test_plan
    /\ UNCHANGED << test_cases, cases, test_dir, scripts, results, failure_reports >>
    /\ UNCHANGED healerVars
    /\ UNCHANGED browserVars

\* A planned test case with an "id", and one without.
Case(id) == [ id |-> id, title |-> "title" ]
CaseNoId == [ title |-> "title" ]

CaseValues == { CaseNoId, Case("TC1"), Case("TC2") }

\* The lists of at most n test cases drawn from `values`.
CaseLists(values, n) == UNION { [1..k -> values] : k \in 0..n }

\* test_case_designer_node returns {**state, "messages": [response]}.
DesignerReturn(response) == Spread(state, [ messages |-> << response >> ])

\* test_case_designer_node writes response.content to output/test_cases.json
\* as it is: the text may or may not be JSON.  (Here the planned cases carry
\* no id; StageSpec starts from lists with ids.)
TestCaseDesigner ==
    /\ SingleShot("test_case_designer_agent", "designer", DesignerReturn(Response),
                  Edge("test_case_designer_agent"))
    /\ IF status' = "running"
       THEN \/ test_cases' = "invalid" /\ cases' = << >>
            \/ test_cases' = "valid" /\ cases' \in CaseLists({ CaseNoId }, MaxScripts)
       ELSE UNCHANGED << test_cases, cases >>
    /\ UNCHANGED << test_plan, test_dir, scripts, results, failure_reports >>
    /\ UNCHANGED healerVars
    /\ UNCHANGED browserVars

\* A block of response.content: text that starts with "test(", written by the
\* model as the test of the case with index `for`, or text that does not.
TestBlock(for) == [ kind |-> "test", for |-> for ]
ProseBlock == [ kind |-> "prose", for |-> 0 ]

\* response.content as the generator sees it: a sequence of at most n blocks,
\* the tests among them written for the cases in `targets`.
Contents(n, targets) ==
    LET Blocks == { ProseBlock } \cup { TestBlock(t) : t \in targets }
    IN UNION { [1..k -> Blocks] : k \in 0..n }

\* re.split(r'(?=test\()', content) and the filter: one script per block that
\* starts with "test(", in the order of the text.  (With no such block the
\* fallback pattern, which itself needs a "test(", finds nothing either.)
Partition(content) ==
    LET P[i \in 0..Len(content)] ==
            IF i = 0 THEN << >>
            ELSE IF content[i].kind = "test"
                 THEN Append(P[i - 1], [ kind |-> "script", block |-> i,
                                         for |-> content[i].for ])
                 ELSE P[i - 1]
    IN P[Len(content)]

\* f"case_{idx+1}", the id of a case that has none.
DefaultId(idx) == << "case_1", "case_2", "case_3", "case_4", "case_5" >>[idx]

\* The '// TODO: Generate test for ...' file of a case without a script.
Placeholder == [ kind |-> "placeholder", block |-> 0, for |-> 0 ]

\* The save loop: the idx-th case gets the idx-th script, or the placeholder,
\* in tests/<case_id>.spec.ts.
SaveScripts(dir, cs, test_scripts) ==
    LET case_id(idx) == Get(cs[idx], "id", DefaultId(idx))
        script(idx) == IF idx <= Len(test_scripts) THEN test_scripts[idx]
                       ELSE Placeholder
        D[idx \in 0..Len(cs)] ==
            IF idx = 0 THEN dir
            ELSE WriteText(D[idx - 1], case_id(idx), script(idx))
    IN D[Len(cs)]

\* test_script_generator_node returns messages, user_story and snapshots only.
GeneratorReturn(response) ==
    [ messages |-> << response >>,
      user_story |-> Get(state, "user_story", ""),
      snapshots |-> Get(state, "snapshots", << >>) ]

\* Mutant of load_snapshots: a missing output/snapshots raises, as a listing
\* with os.listdir would.
load_snapshots_Listdir(dir) ==
    [ raised |-> dir = EmptyDir,
      snapshots |-> { dir[k].page_name : k \in DOMAIN dir } ]

\* load_snapshots: the records of output/snapshots/*.json by page name;
\* Path.glob yields nothing when the directory does not exist.
load_snapshots(dir) ==
    [ raised |-> FALSE,
      snapshots |-> { dir[k].page_name : k \in DOMAIN dir } ]

\* test_script_generator_node: reading output/test_cases.json raises when the
\* file is missing, json.loads raises on text that is no JSON, both before the
\* model is called; otherwise the snapshots
\* are loaded, one model call is made and the script files are written.  The
\* tests of the response are written for the cases in `targets`.
Generate(targets) ==
    \/ /\ CanRun("test_script_generator_agent")
       /\ test_cases # "valid" \/ load_snapshots(snapshot_dir).raised
       /\ StartStep("test_script_generator_agent")
       /\ status' = "stage_error"
       /\ UNCHANGED << node, state, next_id >>
       /\ UNCHANGED artifactVars
       /\ UNCHANGED llmVars
       /\ UNCHANGED healerVars
       /\ UNCHANGED browserVars
    \/ /\ test_cases = "valid"
       /\ ~load_snapshots(snapshot_dir).raised
       /\ SingleShot("test_script_generator_agent", "generator",
                     GeneratorReturn(Response),
                     Edge("test_script_generator_agent"))
       /\ IF status' = "running"
          THEN \E content \in Contents(Len(cases) + 1, targets) :
                  /\ test_dir' = SaveScripts(test_dir, cases, Partition(content))
                  /\ scripts' = Cardinality(DOMAIN test_dir')
          ELSE UNCHANGED << test_dir, scripts >>
       /\ UNCHANGED << test_plan, test_cases, cases, results, failure_reports >>
       /\ UNCHANGED healerVars
       /\ UNCHANGED browserVars

\* In the whole run the model writes its tests for the first case.  (Tests
\* written for any of the cases are the subject of StageSpec.)
TestScriptGenerator == Generate({ 1 })

(***************************************************************************)
(* TestRunner.                                                              *)
(***************************************************************************)
\* What one `npx playwright test <script>` invocation can do: exit 0, exit
\* non-zero, or run into subprocess.TimeoutExpired.
Outcomes == { "pass", "fail", "timeout" }

\* Mutant of RunnerFailures: only the first script that did not pass is kept.
RunnerFailures_FirstOnly(rs) ==
    LET N == { i \in 1..Len(rs) : rs[i] /= "pass" }
    IN IF N = {} THEN << >>
       ELSE LET i == CHOOSE j \in N : \A k \in N : j <= k
            IN << [ script_name |-> i,
                    logs |-> IF rs[i] = "timeout" THEN "timed out" ELSE "process output" ] >>

\* Mutant of RunnerFailures: the loop is left at the first timeout.
RunnerFailures_StopAtTimeout(rs) ==
    LET entry(i) ==
            [ script_name |-> i,
              logs |-> IF rs[i] = "timeout" THEN "timed out" ELSE "process output" ]
        F[i \in 0..Len(rs)] ==
            IF i = 0 THEN << >>
            ELSE IF \E j \in 1..(i - 1) : rs[j] = "timeout" THEN F[i - 1]
            ELSE IF rs[i] /= "pass" THEN Append(F[i - 1], entry(i))
            ELSE F[i - 1]
    IN F[Len(rs)]

\* The failures list test_runner_node builds from the per-script outcomes.
RunnerFailures(rs) ==
    LET entry(i) ==
            [ script_name |-> i,
              logs |-> IF rs[i] = "timeout" THEN "timed out" ELSE "process output" ]
        F[i \in 0..Len(rs)] ==
            IF i = 0 THEN << >>
            ELSE IF rs[i] /= "pass" THEN Append(F[i - 1], entry(i))
            ELSE F[i - 1]
    IN F[Len(rs)]

FailureReportPath == "output/failure_report/failure_analysis.md"

\* The early return of test_runner_node.
RunnerCleanReturn ==
    Spread(state, [ has_test_failures |-> FALSE, failures |-> << >>,
                    failure_report_path |-> NULL, llm_analysis |-> NULL ])

\* Mutant of RunnerFailedReturn: the failures are not handed on.
RunnerFailedReturn_NoFailures(fl) ==
    Spread(state, [ has_test_failures |-> TRUE, failures |-> << >>,
                    failure_report_path |-> FailureReportPath,
                    llm_analysis |-> "markdown_report" ])

\* The final return of test_runner_node.
RunnerFailedReturn(fl) ==
    Spread(state, [ has_test_failures |-> TRUE, failures |-> fl,
                    failure_report_path |-> FailureReportPath,
                    llm_analysis |-> "markdown_report" ])

TestRunner ==
    /\ CanRun("test_runner_agent")
    /\ StartStep("test_runner_agent")
    /\ \E rs \in [1..scripts -> Outcomes] :
         LET fl == RunnerFailures(rs)
         IN /\ results' = rs
            /\ IF fl = << >>
               THEN /\ state' = Merge(state, RunnerCleanReturn)
                    /\ GoTo(RunnerEdge(route_after_test_runner(state')))
                    /\ UNCHANGED << failure_reports, llm_calls, llm_failed_in >>
               ELSE \/ /\ LLMRaise("runner")
                       /\ UNCHANGED << node, state, failure_reports >>
                    \/ /\ LLMReturn("runner")
                       /\ failure_reports' = failure_reports + 1
                       /\ state' = Merge(state, RunnerFailedReturn(fl))
                       /\ GoTo(RunnerEdge(route_after_test_runner(state')))
    /\ UNCHANGED << next_id, test_plan, test_cases, cases, test_dir, scripts >>
    /\ UNCHANGED healerVars
    /\ UNCHANGED browserVars

(***************************************************************************)
(* playwright_run_all_tests and the Healer's reading of its result.         *)
(***************************************************************************)
Result(st) == [ status |-> st ]
Test(rs) == [ results |-> rs ]
SpecOf(tests) == [ tests |-> tests ]
Suite(specs) == [ specs |-> specs ]
Report(suites) == [ suites |-> suites ]

\* JSON reports of the Playwright reporter the model draws from.
ReportNoSuites == Report(<< >>)
ReportPassed == Report(<< Suite(<< SpecOf(<< Test(<< Result("passed") >>) >>) >>) >>)
ReportFailed ==
    Report(<< Suite(<< SpecOf(<< Test(<< Result("failed") >>) >>),
                       SpecOf(<< Test(<< Result("passed") >>) >>) >>) >>)
ReportNoTests == Report(<< Suite(<< SpecOf(<< >>) >>) >>)

Reports == { ReportNoSuites, ReportPassed, ReportFailed, ReportNoTests }

\* A completed process: return code, stdout (of some kind) and stderr.  Text
\* that is no JSON is a sequence of chunks of a thousand characters.
Proc(returncode, kind, value, stderr) ==
    [ returncode |-> returncode, stdout |-> [ kind |-> kind, value |-> value ],
      stderr |-> stderr ]

\* What the `npx playwright test --reporter=json` process can leave: a return
\* code, and a stdout that is empty, text that is no JSON, or a JSON report.
Procs ==
    { Proc(0, "json", ReportPassed, << >>),
      Proc(0, "json", ReportNoSuites, << >>),
      Proc(1, "json", ReportFailed, << >>),
      Proc(1, "json", ReportNoTests, << >>),
      Proc(1, "empty", [ text |-> << >> ], << "e1", "e2", "e3" >>),
      Proc(0, "text", [ text |-> << "o1", "o2", "o3" >> ], << >>) }

\* No process ran to completion.
NoProc == Proc(-1, "none", [ text |-> << >> ], << >>)

\* text[-2000:], on chunks of a thousand characters.
TailLen == 2
TailOf(text) ==
    SubSeq(text, IF Len(text) > TailLen THEN Len(text) - TailLen + 1 ELSE 1, Len(text))

\* A tool call that returned `result`, and one that raised.
Returned(result) == [ raised |-> FALSE, result |-> result ]
Raised == [ raised |-> TRUE, result |-> NoResult ]

\* A dict tool result.
Dict(value) == [ dict |-> TRUE, value |-> value ]

\* A tool result that is no dict.
Text(value) == [ dict |-> FALSE, value |-> value ]

\* Mutant of playwright_run_all_tests: json.loads is not inside a try block.
playwright_run_all_tests_NoTry(proc) ==
    IF proc.returncode /= 0 /\ proc.stdout.kind = "empty"
    THEN Returned(Dict([ error |-> "Playwright execution failed",
                         stderr |-> TailOf(proc.stderr) ]))
    ELSE IF proc.stdout.kind = "json"
    THEN Returned(Dict(proc.stdout.value))
    ELSE Raised

\* playwright_run_all_tests, on what its process left: the error value of a
\* failed execution, the parsed report, or the error value of a failed parse.
playwright_run_all_tests(proc) ==
    IF proc.returncode /= 0 /\ proc.stdout.kind = "empty"
    THEN Returned(Dict([ error |-> "Playwright execution failed",
                         stderr |-> TailOf(proc.stderr) ]))
    ELSE IF proc.stdout.kind = "json"
    THEN Returned(Dict(proc.stdout.value))
    ELSE Returned(Dict([ error |-> "Failed to parse Playwright JSON output",
                         exception |-> "JSONDecodeError",
                         raw |-> TailOf(proc.stdout.value.text) ]))

\* tool_result.get("suites", []).
SuitesOf(d) == IF "suites" \in DOMAIN d THEN d.suites ELSE << >>

\* The Healer's count raises (IndexError) on a spec whose tests list is empty.
CountRaises(d) ==
    \E i \in 1..Len(SuitesOf(d)) :
        \E j \in 1..Len(SuitesOf(d)[i].specs) : Len(SuitesOf(d)[i].specs[j].tests) = 0

\* Whether some result of the spec's first test has status "failed".
SpecFailed(t) ==
    \E k \in 1..Len(t.tests[1].results) : t.tests[1].results[k].status = "failed"

\* total_failures of advanced_test_healer_node.
TotalFailures(d) ==
    LET suites == SuitesOf(d)
        failed(suite) == Cardinality({ j \in 1..Len(suite.specs) : SpecFailed(suite.specs[j]) })
        S[i \in 0..Len(suites)] ==
            IF i = 0 THEN 0 ELSE S[i - 1] + failed(suites[i])
    IN S[Len(suites)]

(***************************************************************************)
(* Healer: advanced_test_healer_node.                                       *)
(***************************************************************************)
\* Mutant of LoopCond: the loop does not stop on convergence.
LoopCond_IgnorePassing(it, passing) == it < max_iterations

\* Mutant of LoopCond: one iteration too many.
LoopCond_OffByOne(it, passing) == it <= max_iterations /\ ~passing

\* Mutant of LoopCond: the loop runs until the tests pass.
LoopCond_NoBound(it, passing) == ~passing

\* The condition of the while loop.
LoopCond(it, passing) == it < max_iterations /\ ~passing

\* What invoking a tool can do: raise, or return a value.  playwright_run_all_tests
\* raises when its process cannot be started, and otherwise does what it does
\* on the completed process.
ToolOutcomes(name) ==
    IF name = "playwright_run_all_tests"
    THEN { [ o |-> Raised, proc |-> NoProc ] }
         \cup { [ o |-> playwright_run_all_tests(p), proc |-> p ] : p \in Procs }
    ELSE { [ o |-> Raised, proc |-> NoProc ],
           [ o |-> Returned(Text("tool output")), proc |-> NoProc ] }

\* The ToolMessage appended for a value a tool returned.
ResultMessage(call, id) == ToolMessage(id, call.id, "result")

\* Mutant of ErrorMessage: the diagnostic does not name its call.
ErrorMessage_NoCallId(call, id) == ToolMessage(id, 0, "error")

\* The ToolMessage appended by the except branch.
ErrorMessage(call, id) == ToolMessage(id, call.id, "error")

\* Whether the Healer evaluates the result of this call for convergence.
Evaluated(call, result) == call.name = "playwright_run_all_tests" /\ result.dict

\* Whether the evaluated result sets all_tests_passing.
Converges(result) == TotalFailures(result.value) = 0

\* One pass of the body of `for tool_call in response.tool_calls`, for a tool
\* that ends as outcome o: the messages appended, how the pass ended and
\* whether it breaks out of the for loop with all_tests_passing set.
CallEffect(call, o, id) ==
    IF call.name \notin healing_tools
    THEN [ msgs |-> << ErrorMessage(call, id) >>, outcome |-> "lookup_failed",
           result |-> NoResult, converged |-> FALSE ]
    ELSE IF o.raised
    THEN [ msgs |-> << ErrorMessage(call, id) >>, outcome |-> "raised",
           result |-> NoResult, converged |-> FALSE ]
    ELSE IF Evaluated(call, o.result) /\ CountRaises(o.result.value)
    THEN [ msgs |-> << ResultMessage(call, id), ErrorMessage(call, id + 1) >>,
           outcome |-> "count_raised", result |-> o.result, converged |-> FALSE ]
    ELSE [ msgs |-> << ResultMessage(call, id) >>, outcome |-> "returned",
           result |-> o.result,
           converged |-> Evaluated(call, o.result) /\ Converges(o.result) ]

\* Mutant of AfterCall: the for loop steps over every other call.
AfterCall_SkipOne(i, n, converged) ==
    IF converged \/ i + 1 >= n THEN [ hpc |-> "loop", ci |-> 0 ]
    ELSE [ hpc |-> "tools", ci |-> i + 2 ]

\* Where the for loop stands after the pass over call number i of n: at the
\* next call, or back at the head of the while loop.
AfterCall(i, n, converged) ==
    IF converged \/ i >= n THEN [ hpc |-> "loop", ci |-> 0 ]
    ELSE [ hpc |-> "tools", ci |-> i + 1 ]

\* The tool calls of a response of n calls whose message id is `id`.
CallsOf(names, id) == [ i \in 1..Len(names) |-> [ name |-> names[i], id |-> id + i ] ]

\* The node starts: the conversation is the system prompt and the kick-off
\* request; iteration = 0, all_tests_passing = False.
HealerStart ==
    /\ CanRun("advanced_test_healer_agent")
    /\ StartStep("advanced_test_healer_agent")
    /\ hpc' = "loop"
    /\ hmsgs' = << SystemMessage(next_id), HumanMessage(next_id + 1) >>
    /\ next_id' = next_id + 2
    /\ iteration' = 0
    /\ all_tests_passing' = FALSE
    /\ calls' = << >>
    /\ ci' = 0
    /\ htools' = 0
    /\ last_call' = NoCall
    /\ UNCHANGED << status, node, state, summaries, summary_request >>
    /\ UNCHANGED artifactVars
    /\ UNCHANGED llmVars
    /\ UNCHANGED browserVars

\* One turn of the while loop up to the for loop: iteration += 1, the model is
\* invoked, the response is appended; without tool calls the continuation
\* prompt is appended.
HealerTurn(cap) ==
    /\ status = "running"
    /\ hpc = "loop"
    /\ LoopCond(iteration, all_tests_passing)
    /\ iteration' = iteration + 1
    /\ \/ /\ LLMRaise("healer_loop")
          /\ UNCHANGED << hpc, hmsgs, next_id, calls, ci, htools >>
       \/ \E n \in 0..(cap - htools) :
            \E names \in [1..n -> CallNames] :
               /\ LLMReturn("healer_loop")
               /\ status' = status
               /\ htools' = htools + n
               /\ next_id' = next_id + 1 + n + (IF n = 0 THEN 1 ELSE 0)
               /\ IF n = 0
                  THEN /\ hmsgs' = hmsgs \o << AIMessage(next_id, 0), HumanMessage(next_id + 1) >>
                       /\ UNCHANGED << hpc, calls, ci >>
                  ELSE /\ hmsgs' = Append(hmsgs, AIMessage(next_id, n))
                       /\ calls' = CallsOf(names, next_id)
                       /\ ci' = 1
                       /\ hpc' = "tools"
    /\ last_call' = NoCall
    /\ UNCHANGED << node, steps, executed, state, all_tests_passing, summaries,
                    summary_request >>
    /\ UNCHANGED artifactVars
    /\ UNCHANGED browserVars

HealerInvoke == HealerTurn(MaxRunToolCalls)

\* One pass of the for loop over the response's tool calls.
HealerToolCall ==
    /\ status = "running"
    /\ hpc = "tools"
    /\ LET call == calls[ci]
       IN \E out \in ToolOutcomes(call.name) :
            LET e == CallEffect(call, out.o, next_id)
                after == AfterCall(ci, Len(calls), e.converged)
            IN /\ hmsgs' = hmsgs \o e.msgs
               /\ next_id' = next_id + Len(e.msgs)
               /\ last_call' = [ call_id |-> call.id, name |-> call.name,
                                 outcome |-> e.outcome, result |-> e.result,
                                 proc |-> out.proc ]
               /\ all_tests_passing' = (all_tests_passing \/ e.converged)
               /\ hpc' = after.hpc
               /\ ci' = after.ci
               /\ calls' = IF after.hpc = "loop" THEN << >> ELSE calls
    /\ UNCHANGED << iteration, htools, summaries, summary_request >>
    /\ UNCHANGED engineVars
    /\ UNCHANGED << state >>
    /\ UNCHANGED artifactVars
    /\ UNCHANGED llmVars
    /\ UNCHANGED browserVars

\* What the summary prompt carries of the loop's outcome.
SummaryRequest(it, passing) == [ iterations |-> it, all_tests_passing |-> passing ]

HealingReportPath == "output/healing_summary/advanced_healing_summary.md"

\* Mutant of HealerReturn: the Healer reports its outcome in has_test_failures.
HealerReturn_SetsFlag ==
    Spread(state, [ messages |-> state.messages \o hmsgs,
                    has_test_failures |-> ~all_tests_passing,
                    healing_complete |-> all_tests_passing,
                    healing_iterations |-> iteration,
                    healing_report_path |-> HealingReportPath ])

\* The return value of advanced_test_healer_node.
HealerReturn ==
    Spread(state, [ messages |-> state.messages \o hmsgs,
                    healing_complete |-> all_tests_passing,
                    healing_iterations |-> iteration,
                    healing_report_path |-> HealingReportPath ])

\* After the while loop: the summary model call, the summary artifact, the
\* return; the edge advanced_test_healer_agent -> END is unconditional.
HealerSummary ==
    /\ status = "running"
    /\ hpc = "loop"
    /\ ~LoopCond(iteration, all_tests_passing)
    /\ summary_request' = SummaryRequest(iteration, all_tests_passing)
    /\ \/ /\ LLMRaise("healer_summary")
          /\ UNCHANGED << node, state, summaries, hpc, hmsgs >>
       \/ /\ LLMReturn("healer_summary")
          /\ summaries' = summaries + 1
          /\ state' = Merge(state, HealerReturn)
          /\ hpc' = "idle"
          /\ hmsgs' = << >>
          /\ GoTo(Edge("advanced_test_healer_agent"))
    /\ last_call' = NoCall
    /\ UNCHANGED << steps, executed, next_id, iteration, all_tests_passing, calls, ci,
                    htools >>
    /\ UNCHANGED artifactVars
    /\ UNCHANGED browserVars

(***************************************************************************)
(* The run.                                                                 *)
(***************************************************************************)
\* A node is pending and the budget is spent: GraphRecursionError leaves
\* app.astream and main().
RecursionAbort ==
    /\ status = "running"
    /\ hpc = "idle"
    /\ node /= END
    /\ ~BudgetLeft(steps)
    /\ status' = "recursion_error"
    /\ UNCHANGED << node, steps, executed, state, next_id >>
    /\ UNCHANGED artifactVars
    /\ UNCHANGED llmVars
    /\ UNCHANGED healerVars
    /\ UNCHANGED browserVars

Next ==
    \/ SnapshotAgent
    \/ ToolsNode
    \/ TestPlanner
    \/ TestCaseDesigner
    \/ TestScriptGenerator
    \/ TestRunner
    \/ HealerStart
    \/ HealerInvoke
    \/ HealerToolCall
    \/ HealerSummary
    \/ RecursionAbort

Spec == Init /\ [][Next]_vars

\* Every stage call and tool call returns or raises: a started run keeps
\* taking steps while one is possible.
FairSpec == Spec /\ WF_vars(Next)

(***************************************************************************)
(* The Healer alone: a run whose snapshot_agent asked for no tool and whose  *)
(* single script did not pass, from the point where the engine is about to  *)
(* start advanced_test_healer_agent.                                        *)
(***************************************************************************)
\* The engine is about to call advanced_test_healer_node on what TestRunner
\* returned (ret), TestRunner having written `reports` failure reports.
HealerEntry(ret, reports) ==
    /\ status = "running"
    /\ node = "advanced_test_healer_agent"
    /\ steps = 5
    /\ executed = [ n \in Nodes |->
                      IF n \in { "tools", "advanced_test_healer_agent" } THEN 0 ELSE 1 ]
    /\ state = [ messages |-> << HumanMessage(1), AIMessage(2, 0), AIMessage(3, 0),
                                AIMessage(4, 0), AIMessage(5, 0) >>,
                 user_story |-> "",
                 snapshots |-> << >> ] @@ ret
    /\ next_id = 6
    /\ test_plan = "written"
    /\ test_cases = "valid"
    /\ cases = << CaseNoId >>
    /\ test_dir = SaveScripts(EmptyDir, cases, Partition(<< TestBlock(1) >>))
    /\ scripts = 1
    /\ failure_reports = reports
    /\ llm_calls = [ s \in LLMStages |->
                       IF s \in { "healer_loop", "healer_summary" } THEN 0
                       ELSE IF s = "runner" THEN reports ELSE 1 ]
    /\ llm_failed_in = NULL
    /\ hpc = "idle"
    /\ iteration = 0
    /\ all_tests_passing = FALSE
    /\ hmsgs = << >>
    /\ calls = << >>
    /\ ci = 0
    /\ htools = 0
    /\ last_call = NoCall
    /\ summaries = 0
    /\ summary_request = NoRequest
    /\ NoBrowserCall

HealerInit ==
    /\ results \in { << "fail" >>, << "timeout" >> }
    /\ HealerEntry([ has_test_failures |-> TRUE,
                     failures |-> RunnerFailures(results),
                     failure_report_path |-> FailureReportPath ], 1)

HealerLoop == HealerTurn(MaxHealerToolCalls)

HealerNext ==
    \/ HealerStart
    \/ HealerLoop
    \/ HealerToolCall
    \/ HealerSummary

HealerSpec == HealerInit /\ [][HealerNext]_vars

\* advanced_test_healer_node called on the state of a clean run, which holds
\* no failure report reference (failure_report_path is None).
NoReportInit ==
    /\ results = << "pass" >>
    /\ HealerEntry([ has_test_failures |-> FALSE,
                     failures |-> << >>,
                     failure_report_path |-> NULL,
                     llm_analysis |-> NULL ], 0)

NoReportSpec == NoReportInit /\ [][HealerNext]_vars

(***************************************************************************)
(* TestScriptGenerator and TestRunner alone: a run whose snapshot_agent     *)
(* asked for no tool, from the point where TestCaseDesigner has written     *)
(* output/test_cases.json and the engine is about to start                  *)
(* test_script_generator_agent.                                             *)
(***************************************************************************)
StageInit ==
    /\ status = "running"
    /\ node = "test_script_generator_agent"
    /\ steps = 3
    /\ executed = [ n \in Nodes |->
                      IF n \in { "snapshot_agent", "test_planner_agent",
                                 "test_case_designer_agent" } THEN 1 ELSE 0 ]
    /\ state = [ messages |-> << HumanMessage(1), AIMessage(2, 0), AIMessage(3, 0),
                                AIMessage(4, 0) >> ]
    /\ next_id = 5
    /\ test_plan = "written"
    /\ \/ test_cases = "invalid" /\ cases = << >>
       \/ test_cases = "valid" /\ cases \in CaseLists(CaseValues, MaxStageCases)
    /\ test_dir = EmptyDir
    /\ scripts = 0
    /\ results = << >>
    /\ failure_reports = 0
    /\ llm_calls = [ s \in LLMStages |->
                       IF s \in { "snapshot", "planner", "designer" } THEN 1 ELSE 0 ]
    /\ llm_failed_in = NULL
    /\ hpc = "idle"
    /\ iteration = 0
    /\ all_tests_passing = FALSE
    /\ hmsgs = << >>
    /\ calls = << >>
    /\ ci = 0
    /\ htools = 0
    /\ last_call = NoCall
    /\ summaries = 0
    /\ summary_request = NoRequest
    /\ NoBrowserCall

\* The generator, the tests of the response written for any of the first
\* MaxTargets cases, in any order.
StageGenerator == Generate(1..MaxTargets)

StageNext ==
    \/ StageGenerator
    \/ TestRunner

StageSpec == StageInit /\ [][StageNext]_vars

(***************************************************************************)
(* The browser session: the tool calls of one model response of             *)
(* snapshot_agent, run by the tool node as concurrent coroutines on one     *)
(* event loop.  A step is the code a coroutine runs between two awaits.     *)
(***************************************************************************)
BrowserOps == { "browser_navigate", "browser_snapshot", "browser_wait" }

\* The page names the snapshot calls are made with: two that differ and
\* sanitize alike.
PageNames == { << "a", " ", "b" >>, << "a", "/", "b" >> }

\* The calls a response can carry: a tool with its page_name, if it has one.
BrowserCalls ==
    { [ op |-> op, name |-> << >> ] : op \in BrowserOps \ { "browser_snapshot" } }
    \cup { [ op |-> "browser_snapshot", name |-> n ] : n \in PageNames }

\* Mutant of TakesLock: browser_snapshot does not take the lock.
TakesLock_NavigateOnly(op) == op = "browser_navigate"

\* The tools whose body is inside `async with _page_lock`.
TakesLock(op) == op \in { "browser_navigate", "browser_snapshot" }

\* asyncio.Lock.acquire returns at once if the lock is free and nobody waits.
LockFree == page_lock = 0 /\ lock_waiters = << >>

\* __aexit__ of `async with _page_lock` (a tool without it releases nothing).
Release(t) == IF TakesLock(task_op[t]) THEN 0 ELSE page_lock

\* A browser tool touches nothing but the browser session.
BrowserFrame ==
    /\ UNCHANGED << status, node, steps, executed, state, next_id >>
    /\ UNCHANGED artifactVars
    /\ UNCHANGED llmVars
    /\ UNCHANGED healerVars

\* The call begins: `async with _page_lock` for the tools that have it, then
\* on to _get_page().
BrowserEnter ==
    \E t \in Tasks :
       /\ task_pc[t] = "start"
       /\ IF ~TakesLock(task_op[t])
          THEN /\ task_pc' = [task_pc EXCEPT ![t] = "get_page"]
               /\ UNCHANGED << page_lock, lock_waiters >>
          ELSE IF LockFree
          THEN /\ page_lock' = t
               /\ task_pc' = [task_pc EXCEPT ![t] = "get_page"]
               /\ UNCHANGED lock_waiters
          ELSE /\ lock_waiters' = Append(lock_waiters, t)
               /\ task_pc' = [task_pc EXCEPT ![t] = "waiting"]
               /\ UNCHANGED page_lock
       /\ UNCHANGED << page, pages, clock, snapshot_dir, saved >>
       /\ UNCHANGED << task_op, task_name, task_page >>
       /\ BrowserFrame

\* release() wakes the oldest waiter, which takes the lock when it runs.
BrowserResume ==
    \E t \in Tasks :
       /\ task_pc[t] = "waiting"
       /\ page_lock = 0
       /\ lock_waiters /= << >>
       /\ Head(lock_waiters) = t
       /\ page_lock' = t
       /\ lock_waiters' = Tail(lock_waiters)
       /\ task_pc' = [task_pc EXCEPT ![t] = "get_page"]
       /\ UNCHANGED << page, pages, clock, snapshot_dir, saved >>
       /\ UNCHANGED << task_op, task_name, task_page >>
       /\ BrowserFrame

\* _get_page(): `if _page is None` starts the launch, which awaits.
BrowserGetPage ==
    \E t \in Tasks :
       /\ task_pc[t] = "get_page"
       /\ task_pc' = [task_pc EXCEPT ![t] = IF page = "none" THEN "launch" ELSE "page_op"]
       /\ task_page' = [task_page EXCEPT ![t] = IF page = "none" THEN 0 ELSE pages]
       /\ UNCHANGED << page, page_lock, lock_waiters, pages, clock, snapshot_dir, saved >>
       /\ UNCHANGED << task_op, task_name >>
       /\ BrowserFrame

\* The launch ends: _page is assigned, or an exception leaves the tool.
BrowserLaunch ==
    \E t \in Tasks :
       /\ task_pc[t] = "launch"
       /\ \/ /\ page' = "open"
             /\ pages' = pages + 1
             /\ task_page' = [task_page EXCEPT ![t] = pages']
             /\ task_pc' = [task_pc EXCEPT ![t] = "page_op"]
             /\ UNCHANGED page_lock
          \/ /\ task_pc' = [task_pc EXCEPT ![t] = "done"]
             /\ page_lock' = Release(t)
             /\ UNCHANGED << page, pages, task_page >>
       /\ UNCHANGED << lock_waiters, clock, snapshot_dir, saved, task_op, task_name >>
       /\ BrowserFrame

\* page.goto / the CDP snapshot / page.wait_for_timeout ends, by returning or
\* by raising; the tool returns.  A snapshot whose CDP calls returned is
\* written to output/snapshots before the tool returns.
BrowserPageOp ==
    \E t \in Tasks :
       /\ task_pc[t] = "page_op"
       /\ task_pc' = [task_pc EXCEPT ![t] = "done"]
       /\ page_lock' = Release(t)
       /\ \/ UNCHANGED << snapshot_dir, saved >>
          \/ /\ task_op[t] = "browser_snapshot"
             /\ saved' = saved + 1
             /\ snapshot_dir' = WriteText(snapshot_dir, SnapshotKey(task_name[t], clock),
                                          Snapshot(task_name[t], saved'))
       /\ UNCHANGED << page, lock_waiters, pages, clock >>
       /\ UNCHANGED << task_op, task_name, task_page >>
       /\ BrowserFrame

\* A second passes.
BrowserTick ==
    /\ clock < MaxClock
    /\ clock' = clock + 1
    /\ UNCHANGED << page, page_lock, lock_waiters, pages, snapshot_dir, saved >>
    /\ UNCHANGED taskVars
    /\ BrowserFrame

\* snapshot_agent has answered the request with MaxBrowserCalls tool calls and
\* the tool node has started their coroutines.
BrowserInit ==
    /\ status = "running"
    /\ node = "tools"
    /\ steps = 2
    /\ executed = [ n \in Nodes |-> IF n \in { "snapshot_agent", "tools" } THEN 1 ELSE 0 ]
    /\ state = [ messages |-> << HumanMessage(1), AIMessage(2, MaxBrowserCalls) >> ]
    /\ next_id = 3 + MaxBrowserCalls
    /\ test_plan = "absent"
    /\ test_cases = "absent"
    /\ cases = << >>
    /\ test_dir = EmptyDir
    /\ scripts = 0
    /\ results = << >>
    /\ failure_reports = 0
    /\ llm_calls = [ s \in LLMStages |-> IF s = "snapshot" THEN 1 ELSE 0 ]
    /\ llm_failed_in = NULL
    /\ hpc = "idle"
    /\ iteration = 0
    /\ all_tests_passing = FALSE
    /\ hmsgs = << >>
    /\ calls = << >>
    /\ ci = 0
    /\ htools = 0
    /\ last_call = NoCall
    /\ summaries = 0
    /\ summary_request = NoRequest
    /\ page = "none"
    /\ page_lock = 0
    /\ lock_waiters = << >>
    /\ pages = 0
    /\ clock = 0
    /\ snapshot_dir = EmptyDir
    /\ saved = 0
    /\ \E cs \in [ Tasks -> BrowserCalls ] :
          /\ task_op = [ t \in Tasks |-> cs[t].op ]
          /\ task_name = [ t \in Tasks |-> cs[t].name ]
    /\ task_page = [ t \in Tasks |-> 0 ]
    /\ task_pc = [ t \in Tasks |-> "start" ]

BrowserNext ==
    \/ BrowserEnter
    \/ BrowserResume
    \/ BrowserGetPage
    \/ BrowserLaunch
    \/ BrowserPageOp
    \/ BrowserTick

BrowserSpec == BrowserInit /\ [][BrowserNext]_vars

(***************************************************************************)
(* update_test_script alone: the tool called on tests/ as the generator     *)
(* left it, with any script name and any new content.                       *)
(***************************************************************************)
\* The script_name arguments: the script of the first case, a script that
\* does not exist, and the empty name, for which Path("tests") / script_name
\* is the directory tests/ itself.
ScriptNames == { "case_1", "case_2", "" }

\* The updated_content arguments: whether the text holds "test(", whether it
\* holds "import", and which of two texts it is.
UpdateContents ==
    { [ kind |-> "updated", has_test |-> t, has_import |-> i, text |-> v ] :
        t \in BOOLEAN, i \in BOOLEAN, v \in { "v1", "v2" } }

\* script_path.exists(): a file of tests/, or tests/ itself.
ScriptPathExists(dir, script_name) == script_name = "" \/ script_name \in DOMAIN dir

\* script_path is a directory, on which write_text raises IsADirectoryError.
IsDirectory(script_name) == script_name = ""

\* update_test_script: what the call does (returns a string, or raises) and
\* tests/ as it leaves it.
update_test_script(dir, script_name, updated_content) ==
    IF ~ScriptPathExists(dir, script_name)
    THEN [ o |-> Returned(Text("ERROR: Script not found.")), dir |-> dir ]
    ELSE IF ~updated_content.has_test \/ ~updated_content.has_import
    THEN [ o |-> Returned(Text("ERROR: Invalid test content detected. Update aborted.")),
           dir |-> dir ]
    ELSE IF IsDirectory(script_name)
    THEN [ o |-> Raised, dir |-> dir ]
    ELSE [ o |-> Returned(Text("Updated test script")),
           dir |-> WriteText(dir, script_name, updated_content) ]

\* One call of the tool.
UpdateTestScript ==
    /\ htools < MaxUpdates
    /\ htools' = htools + 1
    /\ \E script_name \in ScriptNames, updated_content \in UpdateContents :
          LET r == update_test_script(test_dir, script_name, updated_content)
          IN /\ test_dir' = r.dir
             /\ last_call' = [ call_id |-> htools', name |-> "update_test_script",
                               outcome |-> IF r.o.raised THEN "raised" ELSE "returned",
                               result |-> r.o.result, proc |-> NoProc,
                               script_name |-> script_name,
                               updated_content |-> updated_content ]
    /\ scripts' = Cardinality(DOMAIN test_dir')
    /\ UNCHANGED << test_plan, test_cases, cases, results, failure_reports >>
    /\ UNCHANGED << hpc, iteration, all_tests_passing, hmsgs, calls, ci, summaries,
                    summary_request >>
    /\ UNCHANGED engineVars
    /\ UNCHANGED << state, next_id >>
    /\ UNCHANGED llmVars
    /\ UNCHANGED browserVars

UpdateSpec == HealerInit /\ [][UpdateTestScript]_vars

(***************************************************************************)
(* Properties.                                                              *)
(***************************************************************************)
Last(seq) == seq[Len(seq)]

Has(key) == key \in DOMAIN state

RunnerRan == executed["test_runner_agent"] > 0

HealerRan == executed["advanced_test_healer_agent"] > 0

\* Tool calls of the current Healer response still to be executed.
PendingCalls == IF hpc = "tools" THEN Len(calls) - ci + 1 ELSE 0

\* Lexicographic order on tuples of the same length.
LexLess(a, b) ==
    \E i \in 1..Len(a) : a[i] < b[i] /\ \A j \in 1..(i - 1) : a[j] = b[j]

\* What is left to a run: whether it runs, its supersteps, the Healer's
\* iterations, the calls of the Healer's current response.
Rank ==
    << IF status = "running" THEN 1 ELSE 0,
       recursion_limit - steps,
       max_iterations - iteration,
       PendingCalls >>

\* C1: whatever the model and the tools answer, every run terminates: each
\* step uses up part of a budget that cannot go below zero (the supersteps
\* left, the Healer iterations left, the calls of the current response left),
\* a run that has not ended can always take a step, and so it reaches the end
\* node or an abort.
C1_RunTerminates ==
    /\ [][LexLess(Rank', Rank)]_vars
    /\ [](\A i \in 1..Len(Rank) : Rank[i] \in Nat)
    /\ [](Terminated \/ ENABLED Next)
    /\ <>Terminated

\* C1 witness: a model whose every snapshot response asked for a tool, stopped
\* by the budget.
C1_Witness ==
    /\ status = "recursion_error"
    /\ executed["snapshot_agent"] = executed["tools"]
    /\ executed["test_planner_agent"] = 0

\* C2: no more than recursion_limit node executions; a run whose budget is
\* spent with a node still pending can only abort, an aborted run executes
\* nothing more, and only a run that reached END completes.
C2_BudgetAbort ==
    /\ [](steps <= recursion_limit)
    /\ [](status = "done" <=> node = END)
    /\ [](status = "recursion_error" => steps = recursion_limit /\ node /= END)
    /\ [][(steps = recursion_limit /\ hpc = "idle") => status' = "recursion_error"]_vars
    /\ [][status /= "recursion_error"]_vars

\* C2 witness: the budget ran out on the snapshot self-loop.
C2_Witness ==
    /\ status = "recursion_error"
    /\ node \in { "snapshot_agent", "tools" }
    /\ steps = recursion_limit

\* C3: after snapshot_agent the next node is tools exactly when the last
\* message asks for a tool call, test_planner_agent otherwise; after tools it
\* is snapshot_agent.
C3_SnapshotRouting ==
    [][/\ (node = "snapshot_agent" /\ steps' = steps + 1 /\ status' = "running")
          => /\ Last(state'.messages).ncalls > 0 => node' = "tools"
             /\ Last(state'.messages).ncalls = 0 => node' = "test_planner_agent"
       /\ (node = "tools" /\ steps' = steps + 1) => node' = "snapshot_agent"]_vars

\* C3 witness: the loop went through tools and back, then on to the planner.
C3_Witness ==
    /\ node = "test_planner_agent"
    /\ executed["tools"] = 2
    /\ executed["snapshot_agent"] = 3

\* Every script TestRunner ran passed.
CleanRun == RunnerRan /\ \A i \in 1..Len(results) : results[i] = "pass"

\* C4: a TestRunner that finds no failing script calls no model, writes no
\* failure report, returns has_test_failures = False and no report path, and
\* the run is complete without the Healer.
C4_CleanRunEnds ==
    CleanRun =>
        /\ llm_calls["runner"] = 0
        /\ failure_reports = 0
        /\ Has("has_test_failures") /\ state.has_test_failures = FALSE
        /\ Has("failure_report_path") /\ state.failure_report_path = NULL
        /\ status = "done"
        /\ node = END
        /\ ~HealerRan
        /\ llm_calls["healer_loop"] = 0 /\ llm_calls["healer_summary"] = 0

\* C4 witness: one script, which passed.
C4_Witness == RunnerRan /\ results = << "pass" >> /\ status = "done"

\* TestRunner returned has_test_failures = True.
FailuresReported == Has("has_test_failures") /\ state.has_test_failures

\* The Healer node has returned.
HealerReturned == HealerRan /\ hpc = "idle"

\* C5: in a run that no ModelProvider failure aborts, a TestRunner that reports
\* failures is followed by the Healer (the budget never stops the run between
\* the two), and the Healer writes exactly one summary, through one model call
\* made once the loop has exited, converged or not.
C5_HealerSummarises ==
    /\ [](FailuresReported => status /= "recursion_error")
    /\ [](FailuresReported /\ status = "done" => HealerReturned)
    /\ [](summaries = IF HealerReturned THEN 1 ELSE 0)
    /\ [](HealerReturned => llm_calls["healer_summary"] = 1)
    /\ [](llm_calls["healer_summary"] > 0 => ~LoopCond(iteration, all_tests_passing))
    /\ (FailuresReported ~> (summaries = 1 \/ status = "model_error"))

\* C5 witness: the Healer gave up after its last iteration and the summary was
\* written.
C5_Witness ==
    /\ status = "done"
    /\ FailuresReported
    /\ summaries = 1
    /\ ~all_tests_passing

\* A run_all_tests result that is a suite report without a failed spec.
CleanReport(r) ==
    /\ r.dict
    /\ "suites" \in DOMAIN r.value
    /\ \A i \in 1..Len(r.value.suites) :
         \A j \in 1..Len(r.value.suites[i].specs) :
            LET t == r.value.suites[i].specs[j]
            IN /\ Len(t.tests) > 0
               /\ \A k \in 1..Len(t.tests) :
                    \A l \in 1..Len(t.tests[k].results) :
                       t.tests[k].results[l].status = "passed"

\* The call just executed was a run_all_tests that returned a clean report.
CleanRerun ==
    /\ last_call.name = "playwright_run_all_tests"
    /\ last_call.outcome = "returned"
    /\ CleanReport(last_call.result)

\* C6: the Healer sets all_tests_passing only on a run_all_tests call that
\* returned a suite report without a failed spec; an error value does not make
\* it converge.
C6_ConvergesOnlyOnCleanRerun ==
    (status = "running" /\ hpc = "loop" /\ all_tests_passing) => CleanRerun

\* C7: a run_all_tests call that returns a clean report in iteration k ends the
\* loop in iteration k: all_tests_passing is set at once, the model is not
\* invoked in the loop again, and the summary request carries k.
C7_ConvergesAtOnce ==
    /\ [][(hpc = "tools" /\ last_call' /= NoCall /\ CleanRerun')
            => all_tests_passing' /\ hpc' = "loop" /\ iteration' = iteration]_vars
    /\ [][all_tests_passing
            => /\ iteration' = iteration
               /\ llm_calls'["healer_loop"] = llm_calls["healer_loop"]]_vars
    /\ [][summary_request' /= summary_request
            => summary_request'.iterations = iteration]_vars

\* C7 witness: converged in the second iteration, and the summary says so.
C7_Witness ==
    /\ summary_request = [ iterations |-> 2, all_tests_passing |-> TRUE ]
    /\ llm_calls["healer_loop"] = 2

CallFailed(lc) == lc.outcome \in { "lookup_failed", "raised", "count_raised" }

\* C9: a tool call that raises (an unknown tool name included) appends a
\* diagnostic ToolMessage carrying its call id and nothing else changes
\* course: the run stays alive, the next call of the response is executed,
\* and after the last one the while loop goes on.
C9_ToolErrorsAbsorbed ==
    /\ [][(hpc = "tools" /\ last_call' /= NoCall /\ CallFailed(last_call'))
            => /\ Len(hmsgs') > Len(hmsgs)
               /\ SubSeq(hmsgs', 1, Len(hmsgs)) = hmsgs
               /\ Last(hmsgs').type = "tool"
               /\ Last(hmsgs').content = "error"
               /\ Last(hmsgs').call_id = calls[ci].id
               /\ status' = "running"
               /\ ci < Len(calls) => hpc' = "tools" /\ ci' = ci + 1 /\ calls' = calls
               /\ ci = Len(calls) => hpc' = "loop"]_vars
    /\ [](last_call.name = UnknownTool => last_call.outcome = "lookup_failed")
    /\ [](status = "running" /\ hpc = "loop" => ENABLED HealerNext)

\* C9 witness: the first call of a response raised, the second was executed
\* and returned.
C9_Witness ==
    /\ Len(hmsgs) >= 3
    /\ hmsgs[Len(hmsgs) - 2].type = "ai"
    /\ hmsgs[Len(hmsgs) - 2].ncalls = 2
    /\ hmsgs[Len(hmsgs) - 1].content = "error"
    /\ hmsgs[Len(hmsgs)].content = "result"

\* C10: a ModelProvider call that raises aborts the run at once, in whichever
\* stage: the stage's return value is not merged, and nothing executes after.
C10_ModelFailureFatal ==
    /\ [](llm_failed_in /= NULL <=> status = "model_error")
    /\ [][status /= "model_error"]_vars
    /\ [][(llm_failed_in = NULL /\ llm_failed_in' /= NULL)
            => state' = state /\ node' = node /\ summaries' = summaries
               /\ failure_reports' = failure_reports]_vars

\* C10 witness: the report call of TestRunner failed.
C10_Witness == llm_failed_in = "runner" /\ status = "model_error"

\* C11: a run ends abnormally only through a ModelProvider failure or the
\* recursion budget; anything else (an unparsable test-case list among it) is
\* absorbed.
C11_OnlyModelOrBudgetAborts ==
    \/ status \in { "running", "done", "recursion_error" }
    \/ status = "model_error" /\ llm_failed_in /= NULL

\* The position of the model response that tool message q of the Healer's
\* conversation follows (0 if there is none).
ResponseBefore(q) ==
    LET A == { p \in 1..(q - 1) : hmsgs[p].type = "ai" }
    IN IF A = {} THEN 0 ELSE CHOOSE p \in A : \A r \in A : r <= p

\* The call ids of the response at position p.
CallIds(p) == (hmsgs[p].id + 1)..(hmsgs[p].id + hmsgs[p].ncalls)

\* Call number i of the response at position p has not been reached: the for
\* loop is still before it, or it was left by `break`.
NotReached(p, i) ==
    /\ \A r \in (p + 1)..Len(hmsgs) : hmsgs[r].type /= "ai"
    /\ \/ hpc = "tools" /\ i >= ci
       \/ all_tests_passing

\* C12: in the Healer's conversation the tool messages of a response follow it
\* at once, before the next response, each answers a call of that response,
\* they stand in the order of the calls, and no call the loop has passed is
\* left without one.
C12_ResultsInCallOrder ==
    /\ [](\A q \in 1..Len(hmsgs) :
            hmsgs[q].type = "tool" =>
               LET p == ResponseBefore(q)
               IN /\ p > 0
                  /\ \A r \in (p + 1)..q : hmsgs[r].type = "tool"
                  /\ hmsgs[q].call_id \in CallIds(p)
                  /\ \A r \in (p + 1)..q : hmsgs[r].call_id <= hmsgs[q].call_id)
    /\ [](\A p \in 1..Len(hmsgs) :
            \A i \in 1..hmsgs[p].ncalls :
               \/ \E q \in (p + 1)..Len(hmsgs) : hmsgs[q].call_id = hmsgs[p].id + i
               \/ NotReached(p, i))
    /\ [][hpc = "tools" =>
            /\ Len(hmsgs') > Len(hmsgs)
            /\ SubSeq(hmsgs', 1, Len(hmsgs)) = hmsgs
            /\ \A q \in (Len(hmsgs) + 1)..Len(hmsgs') :
                  hmsgs'[q].type = "tool" /\ hmsgs'[q].call_id = calls[ci].id]_vars

\* C12 witness: a response of three calls, answered one after the other.
C12_Witness ==
    \E p \in 1..Len(hmsgs) :
       /\ hmsgs[p].ncalls = 3
       /\ Len(hmsgs) = p + 3
       /\ \A i \in 1..3 : hmsgs[p + i].call_id = hmsgs[p].id + i

\* TestScriptGenerator has saved its scripts.
GeneratorDone == executed["test_script_generator_agent"] > 0 /\ llm_calls["generator"] > 0
                 /\ llm_failed_in /= "generator"

\* C13: TestScriptGenerator leaves exactly one file per planned test case.
C13_OneFilePerCase ==
    GeneratorDone => Cardinality(DOMAIN test_dir) = Len(cases)

\* C14: once TestRunner has executed, failures is non-empty exactly when
\* has_test_failures is true, the Healer's return included.
C14_FailuresIffFlag ==
    RunnerRan =>
       (Len(Get(state, "failures", << >>)) > 0 <=> Get(state, "has_test_failures", FALSE))

\* C14 witness: the Healer converged and returned; the flag and the list are
\* still those of TestRunner.
C14_Witness ==
    /\ HealerReturned
    /\ all_tests_passing
    /\ state.has_test_failures
    /\ Len(state.failures) = 1

\* The value of has_test_failures, NULL-free: absent, true or false.
FlagOf(st) ==
    IF "has_test_failures" \notin DOMAIN st THEN "absent"
    ELSE IF st.has_test_failures THEN "true" ELSE "false"

\* C15: a step that is not a TestRunner execution leaves has_test_failures as
\* it was (absent, true or false).
C15_OnlyRunnerWritesFlag ==
    [][executed'["test_runner_agent"] = executed["test_runner_agent"]
         => FlagOf(state') = FlagOf(state)]_vars

\* C15 witness: the Healer gave up and returned, the flag is still true.
C15_Witness ==
    /\ HealerReturned
    /\ ~all_tests_passing
    /\ FlagOf(state) = "true"
    /\ executed["tools"] > 0

\* seq has no two messages with one id.
NoDuplicates(seq) == \A i, j \in 1..Len(seq) : seq[i].id = seq[j].id => i = j

\* a is a prefix of b.
IsPrefix(a, b) == Len(a) <= Len(b) /\ SubSeq(b, 1, Len(a)) = a

\* C16: AgentState.messages only grows at its end: after every merge the old
\* sequence is a prefix of the new one, and no message occurs twice.
C16_MessagesAppendOnly ==
    /\ [][IsPrefix(state.messages, state'.messages)]_vars
    /\ [](NoDuplicates(state.messages))

\* C16 witness: the Healer has returned its prior history and its own
\* conversation; the history is there once, followed by the conversation.
C16_Witness ==
    /\ HealerReturned
    /\ executed["tools"] = 1
    /\ Len(state.messages) > 9
    /\ state.messages[1] = HumanMessage(1)

\* The step is the return of TestPlanner, TestCaseDesigner or
\* TestScriptGenerator.
SingleShotReturned ==
    /\ \E n \in { "test_planner_agent", "test_case_designer_agent",
                  "test_script_generator_agent" } : executed'[n] = executed[n] + 1
    /\ status' = "running"

\* C17 as stated: after a single-shot stage returns, messages is exactly that
\* stage's response.
C17_MessagesReplaced ==
    [][SingleShotReturned => state'.messages = << AIMessage(next_id, 0) >>]_vars

\* C17, amended: after a single-shot stage returns, messages is the history
\* accumulated before it, followed by that stage's response.
C17_MessagesAppended ==
    [][SingleShotReturned
         => state'.messages = Append(state.messages, AIMessage(next_id, 0))]_vars

\* C17 witness: the three single-shot stages have returned after a snapshot
\* round with a tool call; the request, the snapshot conversation and the
\* three responses are all there.
C17_Witness ==
    /\ node = "test_runner_agent"
    /\ executed["tools"] = 1
    /\ Len(state.messages) = 7

\* The scripts whose test process did not pass.
NonPassing == { i \in 1..Len(results) : results[i] /= "pass" }

\* C18: the failures TestRunner returns hold one entry per script that did not
\* pass and none for a passing script; has_test_failures says whether there is
\* one.
C18_OneEntryPerFailure ==
    (RunnerRan /\ Has("failures")) =>
       /\ Len(state.failures) = Cardinality(NonPassing)
       /\ { state.failures[k].script_name : k \in 1..Len(state.failures) } = NonPassing
       /\ state.has_test_failures <=> NonPassing /= {}

\* C18 witness: of three scripts one passed and two did not.
C18_Witness ==
    /\ RunnerRan
    /\ Len(results) = 3
    /\ Cardinality(NonPassing) = 2
    /\ Has("failures")
    /\ Len(state.failures) = 2

\* C19: a script whose process timed out gets one failures entry saying so;
\* every script is run once, those after the timeout included, and TestRunner
\* itself does not fail on it.
C19_TimeoutRecorded ==
    RunnerRan =>
       /\ Len(results) = scripts
       /\ status \in { "running", "done", "model_error" }
       /\ Has("failures") =>
            \A i \in 1..Len(results) :
               /\ results[i] = "timeout" =>
                    /\ Cardinality({ k \in 1..Len(state.failures) :
                                       state.failures[k].script_name = i }) = 1
                    /\ \A k \in 1..Len(state.failures) :
                          state.failures[k].script_name = i
                             => state.failures[k].logs = "timed out"
               /\ (i > 1 /\ results[i - 1] = "timeout" /\ results[i] = "fail") =>
                    \E k \in 1..Len(state.failures) :
                       /\ state.failures[k].script_name = i
                       /\ state.failures[k].logs = "process output"

\* C19 witness: the first script timed out, the second was run and failed, the
\* third was run and passed.
C19_Witness ==
    /\ RunnerRan
    /\ results = << "timeout", "fail", "pass" >>
    /\ Has("failures")
    /\ Len(state.failures) = 2

\* Call t is inside the body of browser_navigate or browser_snapshot: between
\* taking the page and returning.
InPageSection(t) ==
    /\ task_op[t] \in { "browser_navigate", "browser_snapshot" }
    /\ task_pc[t] \in { "get_page", "launch", "page_op" }

\* C20: however the concurrent browser tool calls interleave, no two calls are
\* inside the page-touching body of browser_navigate or browser_snapshot at
\* the same time, and the one inside holds the lock.
C20_NavigateSnapshotExclusive ==
    \A t \in Tasks :
       InPageSection(t) =>
          /\ page_lock = t
          /\ \A u \in Tasks \ { t } : ~InPageSection(u)

\* C20 witness: a navigate is on the page while a snapshot waits for the lock
\* and a third call has finished.
C20_Witness ==
    \E t, u, v \in Tasks :
       /\ task_op[t] = "browser_navigate" /\ task_pc[t] = "page_op"
       /\ task_op[u] = "browser_snapshot" /\ task_pc[u] = "waiting"
       /\ task_pc[v] = "done"

\* C21: however the browser tool calls of a run interleave, the session is
\* created at most once and every call that got a page got the same one.
C21_SessionCreatedOnce ==
    /\ pages <= 1
    /\ \A t, u \in Tasks :
          (task_page[t] # 0 /\ task_page[u] # 0) => task_page[t] = task_page[u]

\* C22: every snapshot that was saved is still in output/snapshots: there are
\* as many files as saves, none overwrote an earlier one.
C22_DistinctSnapshotKeys ==
    Cardinality(DOMAIN snapshot_dir) = saved

\* The four single-pass stages after the SnapshotCollector, in graph order.
Pipeline ==
    << "test_planner_agent", "test_case_designer_agent",
       "test_script_generator_agent", "test_runner_agent" >>

NothingCaptured ==
    /\ executed["tools"] = 0
    /\ snapshot_dir = EmptyDir
    /\ Get(state, "user_story", "") = ""

HasFailureReport == Get(state, "failure_report_path", NULL) # NULL

NoReportLeft(proc) ==
    \/ proc.returncode # 0 /\ proc.stdout.kind = "empty"
    \/ proc.stdout.kind = "text"

\* C25: a playwright_run_all_tests call whose process failed or left output
\* that cannot be parsed does not raise: it returned a dict with the error
\* kind and the tail of stderr or of the raw output, and the Healer appended
\* it as the tool message answering that call.
C25_RunAllTestsReturnsError ==
    (last_call.name = "playwright_run_all_tests" /\ NoReportLeft(last_call.proc)) =>
       /\ last_call.outcome = "returned"
       /\ last_call.result.dict
       /\ "error" \in DOMAIN last_call.result.value
       /\ IF last_call.proc.stdout.kind = "empty"
          THEN last_call.result.value.stderr = << "e2", "e3" >>
          ELSE last_call.result.value.raw = << "o2", "o3" >>
       /\ Last(hmsgs) = ToolMessage(next_id - 1, last_call.call_id, "result")

\* C25 witness: the process of a run_all_tests call left text that is no JSON,
\* and the error value about it is the call's tool message.
C25_Witness ==
    /\ last_call.name = "playwright_run_all_tests"
    /\ last_call.proc.stdout.kind = "text"
    /\ last_call.outcome = "returned"
    /\ "raw" \in DOMAIN last_call.result.value
    /\ Last(hmsgs).call_id = last_call.call_id

\* The tool messages of the Healer conversation that answer call `id`.
ResultsFor(id) ==
    { j \in 1..Len(hmsgs) : hmsgs[j].type = "tool" /\ hmsgs[j].call_id = id }

\* C28: whenever the Healer is at the head of its while loop (about to invoke
\* the model again or to leave the loop), every tool call requested by a
\* response of the conversation has exactly one tool message with its id.
C28_OneResultPerCall ==
    hpc = "loop" =>
       \A i \in 1..Len(hmsgs) :
          hmsgs[i].type = "ai" =>
             \A k \in 1..hmsgs[i].ncalls :
                Cardinality(ResultsFor(hmsgs[i].id + k)) = 1

\* The file name of the idx-th planned case.
FileOf(idx) == Get(cases[idx], "id", DefaultId(idx))

\* C30: a script in tests/ that the model wrote for one of the planned cases
\* is in the file of that case.
C30_ScriptInItsCaseFile ==
    \A p \in DOMAIN test_dir :
       (test_dir[p].kind = "script" /\ test_dir[p].for <= Len(cases))
          => FileOf(test_dir[p].for) = p

\* C29: once the Healer has returned, the declared healing-report key of
\* AgentState holds the path of the summary it wrote; once TestRunner has
\* reported failures, failure_report_path holds the path of its report.
C29_ReportReferences ==
    /\ HealerReturned =>
          Get(state, "advanced_healing_report_path", NULL) = HealingReportPath
    /\ FailuresReported =>
          Get(state, "failure_report_path", NULL) = FailureReportPath

\* The call just made was an update_test_script that acknowledged and
\* overwrote exactly the named existing script in this step.
UpdateAcknowledged ==
    /\ last_call'.outcome = "returned"
    /\ last_call'.result.value = "Updated test script"
    /\ last_call'.script_name \in DOMAIN test_dir
    /\ test_dir' = [test_dir EXCEPT ![last_call'.script_name] = last_call'.updated_content]

\* The call just made was an update_test_script that returned an error and
\* left tests/ as it was.
UpdateRefused ==
    /\ last_call'.outcome = "returned"
    /\ last_call'.result.value # "Updated test script"
    /\ test_dir' = test_dir

\* C31: every update_test_script call either acknowledges and overwrites
\* exactly the named existing script, or returns an error and leaves every
\* script file unchanged; it never raises.
C31_UpdateAckOrError ==
    [][last_call'.name = "update_test_script" => (UpdateAcknowledged \/ UpdateRefused)]_vars

====
